---- MODULE Spec2Model ----
(***************************************************************************)
(* snip_man: the interactive search-and-select loop of src/src/tui.rs      *)
(* (struct App, App::filter_snippets, App::next, App::previous,            *)
(* App::selected_snippet, run_tui, ui).                                    *)
(*                                                                         *)
(* Conventions                                                             *)
(*  - Option<T> is a sequence of length at most one: None is <<>> and      *)
(*    Some(x) is <<x>>.                                                    *)
(*  - A String is a sequence of one-character strings.                     *)
(*  - Vec indices are 0-based as in the source; At(v, i) is v[i].          *)
(*  - A snippet's code is [text, pad]: the characters of text followed by  *)
(*    pad newline characters, so that bodies of more than 2^16 lines are   *)
(*    representable.                                                       *)
(***************************************************************************)
EXTENDS Integers, Sequences, FiniteSets, TLC

VARIABLES
    all_snippets,      \* App.all_snippets: Vec<Snippet>           (Corpus)
    visible_snippets,  \* App.visible_snippets: Vec<usize>         (VisibleOrder)
    selected,          \* App.list_state.selected(): Option<usize> (Selection)
    search_query,      \* App.search_query: String
    mode,              \* App.mode: Mode
    preview_full,      \* App.preview_full: bool
    preview_scroll,    \* App.preview_scroll: u16
    status_msg,        \* App.status_msg: Option<String>
    selected_code,     \* run_tui's local selected_code: Option<&str>
    key,               \* the key event handled in this turn of the loop, if any
    store_call,        \* the delete_snippet call made in this turn of the loop
    result,            \* what run_tui returned: None while it has not returned
    clipboard,         \* the texts Clipboard::set_text was called with, in order
    raw_mode,          \* the terminal is in raw mode (enable_raw_mode)
    alternate_screen,  \* the terminal shows the alternate screen
    requested,         \* in ConfirmDelete: what was selected when 'd' was pressed
    parser,            \* the locals of parse_cmdline (main.rs) while it runs
    loader,            \* the locals of load_snippets (snippets.rs) while it runs
    pc                 \* position of run_tui: "draw", "read" in the loop, "done"
                       \* behind it, "restored" after the teardown, and
                       \* "returned", "failed" or "panicked" at its end;
                       \* "idle" while run_tui is not running

vars == <<all_snippets, visible_snippets, selected, search_query, mode,
          preview_full, preview_scroll, status_msg, selected_code,
          key, store_call, result, clipboard, raw_mode, alternate_screen,
          requested, parser, loader, pc>>

appvars == <<all_snippets, visible_snippets, selected, search_query, mode,
             preview_full, preview_scroll, status_msg>>

\* the state of run_tui, and the state of the two functions of main.rs and
\* snippets.rs that are modelled beside it
tuivars == <<appvars, selected_code, key, store_call, result, clipboard,
             raw_mode, alternate_screen, requested, pc>>
sidevars == <<parser, loader>>

-----------------------------------------------------------------------------
(* Bounds of the model                                                     *)

MaxCorpus == 3
MaxQuery == 2
MaxDir == 3      \* entries of the snippets directory (load_snippets)
MaxCmd == 4      \* characters of the string given to parse_cmdline

-----------------------------------------------------------------------------
(* Option, Vec and integer helpers                                         *)

None == <<>>
Some(x) == <<x>>
IsSome(o) == o # <<>>
Unwrap(o) == o[1]

At(v, i) == v[i + 1]
Get(v, i) == IF i >= 0 /\ i < Len(v) THEN Some(v[i + 1]) ELSE None
Range0(n) == [k \in 1..n |-> k - 1]
Min(a, b) == IF a <= b THEN a ELSE b
Max(a, b) == IF a >= b THEN a ELSE b
U16 == 65536
SatSub(a, b) == IF a >= b THEN a - b ELSE 0
SatAddU16(a, b) == Min(a + b, U16 - 1)
AsU16(n) == n % U16

-----------------------------------------------------------------------------
(* The snippets of the session                                             *)

Code(text, pad) == [text |-> text, pad |-> pad]

Snippet(id, description, tags, code) ==
    [id |-> id, description |-> description, tags |-> tags, code |-> code]

Pool ==
    { Snippet("s1", <<"n", "y">>, <<>>, Code(<<"x">>, 0)),
      Snippet("s2", <<"x">>, << <<"n">>, <<"y">> >>, Code(<<"x">>, 12)),
      Snippet("s3", <<"y", "n">>, << <<"x">> >>, Code(<<"n", "y">>, 65537)),
      Snippet("s4", <<"x">>, << <<"x">>, <<"x">> >>, Code(<<"x", "\n", "x">>, 0)) }

Injective(s) == \A i, j \in 1..Len(s) : i # j => s[i].id # s[j].id

Corpora ==
    UNION { {s \in [1..n -> Pool] : Injective(s)} : n \in 0..Min(MaxCorpus, Cardinality(Pool)) }

-----------------------------------------------------------------------------
(* Text helpers                                                            *)

RECURSIVE Join(_, _)
\* tags.join(sep): the tags concatenated with sep between neighbours
Join(tags, sep) ==
    IF tags = <<>> THEN <<>>
    ELSE IF Len(tags) = 1 THEN tags[1]
    ELSE tags[1] \o sep \o Join(Tail(tags), sep)

\* code.lines().count(): one line per newline, plus a last unterminated line
LinesCount(code) ==
    LET nl == Cardinality({i \in 1..Len(code.text) : code.text[i] = "\n"})
        open == code.pad = 0 /\ code.text # <<>>
                  /\ code.text[Len(code.text)] # "\n"
    IN  nl + code.pad + (IF open THEN 1 ELSE 0)

-----------------------------------------------------------------------------
(* SkimMatcherV2::fuzzy_match(choice, pattern) -> Option<i64>              *)
(* (fuzzy_matcher crate).  The pattern matches iff its characters occur in *)
(* the choice in order; the score is the best one over all alignments,     *)
(* rewarding every matched character, a match at the head of the choice    *)
(* and adjacent matched characters, and charging the characters skipped    *)
(* between the first and the last match.  All texts here are lower case,   *)
(* so the matcher's smart-case rule plays no part.                         *)

\* the largest element of a non-empty set of integers
MaxOf(S) == CHOOSE m \in S : \A x \in S : x <= m

\* what matching pattern[j] at position p adds to the score, the previous
\* pattern character having matched at position last
MatchGain(j, p, last) ==
    16
    + (IF j = 1 /\ p = 1 THEN 8 ELSE 0)
    + (IF j > 1 /\ p = last + 1 THEN 4 ELSE 0)
    - (IF j > 1 THEN 2 * (p - last - 1) ELSE 0)

RECURSIVE BestAlign(_, _, _, _)
\* the best score of matching pattern[j..] behind position last of choice
BestAlign(choice, pattern, j, last) ==
    IF j > Len(pattern) THEN Some(0)
    ELSE LET cands == {p \in (last + 1)..Len(choice) :
                          /\ choice[p] = pattern[j]
                          /\ IsSome(BestAlign(choice, pattern, j + 1, p))}
         IN  IF cands = {} THEN None
             ELSE Some(MaxOf({MatchGain(j, p, last)
                                + Unwrap(BestAlign(choice, pattern, j + 1, p)) :
                              p \in cands}))

FuzzyMatch(choice, pattern) == BestAlign(choice, pattern, 1, 0)

-----------------------------------------------------------------------------
(* App::filter_snippets                                                    *)

\* if let Some(s) = m { best = Some(best.map_or(s, |b| b.max(s))) }
\* (for the first field, where best is None, this is best = Some(s))
Better(best, m) ==
    IF IsSome(m)
    THEN Some(IF IsSome(best) THEN Max(Unwrap(best), Unwrap(m)) ELSE Unwrap(m))
    ELSE best

\* variant of BestScore that never looks at the code (C3 tells it apart)
BestScore_NoCode(snippet, query) ==
    Better(Better(None, FuzzyMatch(snippet.description, query)),
           FuzzyMatch(Join(snippet.tags, <<" ">>), query))

\* the closure of filter_map (tui.rs 75-89): the snippet's best field score
BestScore(snippet, query) ==
    Better(Better(Better(None, FuzzyMatch(snippet.description, query)),
                  FuzzyMatch(Join(snippet.tags, <<" ">>), query)),
           FuzzyMatch(snippet.code.text, query))

\* best.map(|score| (idx, score)), as the elements filter_map keeps
ScoredEntry(idx, best) ==
    IF IsSome(best) THEN << <<idx, Unwrap(best)>> >> ELSE <<>>

RECURSIVE Scored(_, _, _)
\* enumerate().filter_map(..).collect(): the pairs <<idx, score>> from idx on
Scored(snippets, query, idx) ==
    IF idx >= Len(snippets) THEN <<>>
    ELSE ScoredEntry(idx, BestScore(At(snippets, idx), query))
         \o Scored(snippets, query, idx + 1)

\* variant of InsertDesc that puts e before the elements of equal score, as
\* an unstable sort may (C4 tells it apart)
InsertDesc_TiesFirst(sorted, e) ==
    LET k == Cardinality({i \in 1..Len(sorted) : sorted[i][2] > e[2]})
    IN  SubSeq(sorted, 1, k) \o <<e>> \o SubSeq(sorted, k + 1, Len(sorted))

\* where a stable descending sort puts e: behind every element that does not
\* score less
InsertDesc(sorted, e) ==
    LET k == Cardinality({i \in 1..Len(sorted) : sorted[i][2] >= e[2]})
    IN  SubSeq(sorted, 1, k) \o <<e>> \o SubSeq(sorted, k + 1, Len(sorted))

RECURSIVE SortByScoreDesc(_)
\* scored.sort_by(|a, b| b.1.cmp(&a.1)): a stable sort, largest score first
SortByScoreDesc(scored) ==
    IF scored = <<>> THEN <<>>
    ELSE InsertDesc(SortByScoreDesc(SubSeq(scored, 1, Len(scored) - 1)),
                    scored[Len(scored)])

\* scored.into_iter().map(|(idx, _)| idx).collect()
Indices(scored) == [k \in 1..Len(scored) |-> scored[k][1]]

\* the visible_snippets filter_snippets computes (tui.rs 65-94)
FilterVisible(snippets, query) ==
    IF query = <<>> THEN Range0(Len(snippets))
    ELSE Indices(SortByScoreDesc(Scored(snippets, query, 0)))

\* tui.rs 96-101: the selection and the scroll offset for the new list
Reselect(vis) ==
    [visible_snippets |-> vis,
     selected |-> IF vis # <<>> THEN Some(0) ELSE None,
     preview_scroll |-> 0]

\* the three fields filter_snippets assigns
filter_snippets(snippets, query) == Reselect(FilterVisible(snippets, query))

-----------------------------------------------------------------------------
(* App::next, App::previous, App::selected_snippet                         *)

\* variant of next that stays on the last entry instead of wrapping (C12
\* tells it apart)
next_NoWrap(sel, visible) ==
    IF IsSome(sel)
    THEN IF visible = <<>> THEN 0
         ELSE IF Unwrap(sel) >= Len(visible) - 1 THEN Len(visible) - 1
         ELSE Unwrap(sel) + 1
    ELSE 0

\* the index App::next selects
next(sel, visible) ==
    IF IsSome(sel)
    THEN IF visible = <<>> THEN 0
         ELSE IF Unwrap(sel) >= Len(visible) - 1 THEN 0
         ELSE Unwrap(sel) + 1
    ELSE 0

\* the index App::previous selects
previous(sel, visible) ==
    IF IsSome(sel)
    THEN IF visible = <<>> THEN 0
         ELSE IF Unwrap(sel) = 0 THEN Len(visible) - 1
         ELSE Unwrap(sel) - 1
    ELSE 0

selected_snippet(sel, visible, snippets) ==
    IF IsSome(sel) /\ IsSome(Get(visible, Unwrap(sel)))
    THEN Get(snippets, Unwrap(Get(visible, Unwrap(sel))))
    ELSE None

-----------------------------------------------------------------------------
(* ui: the text of the preview block (tui.rs 310-327)                      *)

RECURSIVE TextLines(_, _)
\* text.lines(), cur being the line that is open: a line ends at every
\* newline, and a last line without a newline counts if it is not empty
TextLines(text, cur) ==
    IF text = <<>> THEN (IF cur = <<>> THEN <<>> ELSE <<cur>>)
    ELSE IF Head(text) = "\n" THEN <<cur>> \o TextLines(Tail(text), <<>>)
    ELSE TextLines(Tail(text), Append(cur, Head(text)))

\* the first n lines of code.lines(): the lines of the text, the first
\* newline of the pad closing its last line, and one empty line for each
\* further newline of the pad
CodeLines(code, n) ==
    LET head == TextLines(IF code.pad > 0 THEN Append(code.text, "\n")
                          ELSE code.text, <<>>)
        tail == [k \in 1..Min(SatSub(code.pad, 1), n) |-> <<>>]
    IN  SubSeq(head \o tail, 1, Min(n, Len(head) + Len(tail)))

\* the number of lines the compact preview shows
CompactLines == 10

\* the character U+2026 (horizontal ellipsis), and the "\n" and U+2026 that
\* push_str appends
EllipsisChar == "U+2026"
Ellipsis == <<"\n", EllipsisChar>>
NoSnippetSelected == "No snippet selected."

\* variant of PreviewText that marks every compact preview as cut (C25
\* tells it apart)
PreviewText_AlwaysCut(snip, full) ==
    IF IsSome(snip)
    THEN IF full THEN Unwrap(snip).code
         ELSE Code(Join(CodeLines(Unwrap(snip).code, CompactLines), <<"\n">>)
                     \o Ellipsis, 0)
    ELSE NoSnippetSelected

\* preview_text for the selected snippet snip (an Option) and the flag
\* preview_full; a text is given as a Code
PreviewText(snip, full) ==
    IF IsSome(snip)
    THEN IF full THEN Unwrap(snip).code
         ELSE IF LinesCount(Unwrap(snip).code) > CompactLines
              THEN Code(Join(CodeLines(Unwrap(snip).code, CompactLines), <<"\n">>)
                          \o Ellipsis, 0)
              ELSE Code(Join(CodeLines(Unwrap(snip).code, CompactLines), <<"\n">>), 0)
    ELSE NoSnippetSelected

-----------------------------------------------------------------------------
(* Input events and the answers of the store                               *)

KeyChars == {"n", "y", " ", "d", "p", "q"}
PlainKeys == {"Enter", "Down", "Up", "PageDown", "PageUp", "Backspace", "Esc", "Tab"}

\* the errors delete_snippet (crate::snippets) can answer with
DeleteErrors == {"No such file or directory"}

StatusPrompt == "Confirm delete? press 'y' or 'n'"
StatusDeleted == "Deleted snippet."
StatusCanceled == "Canceled delete."
\* format!("Delete failed: {}", e)
StatusFailed(e) == "Delete failed: " \o e

-----------------------------------------------------------------------------
(* run_tui                                                                 *)

\* the value of parser and of loader while their function is not running
NotRunning == [at |-> "idle"]

\* the values of io::Result<Option<String>> run_tui returns: Err(e), and
\* Ok(code) for code an Option
Err == <<"Err">>
Ok(code) == <<"Ok", code>>

Init ==
    /\ all_snippets \in Corpora
    /\ visible_snippets = Range0(Len(all_snippets))
    /\ selected = Some(0)
    /\ search_query = <<>>
    /\ mode = "Normal"
    /\ preview_full = FALSE
    /\ preview_scroll = 0
    /\ status_msg = None
    /\ selected_code = None
    /\ key = None
    /\ store_call = None
    /\ result = None
    /\ clipboard = <<>>
    /\ raw_mode = TRUE
    /\ alternate_screen = TRUE
    /\ requested = None
    /\ parser = NotRunning
    /\ loader = NotRunning
    /\ pc = "draw"

\* List::render on &mut app.list_state (ratatui): nothing is drawn into an
\* empty list area; otherwise an empty list clears the selection and an
\* out-of-range selection moves to the last item
ListRender(sel, nitems, areaEmpty) ==
    IF areaEmpty THEN sel
    ELSE IF nitems = 0 THEN None
    ELSE IF IsSome(sel) /\ Unwrap(sel) >= nitems THEN Some(nitems - 1)
    ELSE sel

\* terminal.draw(|f| ui(f, &mut app))? succeeded; a new turn of the loop
Draw ==
    /\ pc = "draw"
    /\ \E areaEmpty \in BOOLEAN :
          selected' = ListRender(selected, Len(visible_snippets), areaEmpty)
    /\ key' = None
    /\ store_call' = None
    /\ pc' = "read"
    /\ UNCHANGED <<all_snippets, visible_snippets, search_query, mode,
                   preview_full, preview_scroll, status_msg, selected_code, result>>
    /\ UNCHANGED <<clipboard, raw_mode, alternate_screen, requested, sidevars>>

\* terminal.draw(..)? returned an error: run_tui returns it
DrawError ==
    /\ pc = "draw"
    /\ result' = Some(Err)
    /\ pc' = "failed"
    /\ UNCHANGED <<appvars, selected_code, key, store_call>>
    /\ UNCHANGED <<clipboard, raw_mode, alternate_screen, requested, sidevars>>

\* event::read()? returned an error: run_tui returns it
ReadError ==
    /\ pc = "read"
    /\ result' = Some(Err)
    /\ pc' = "failed"
    /\ UNCHANGED <<appvars, selected_code, key, store_call>>
    /\ UNCHANGED <<clipboard, raw_mode, alternate_screen, requested, sidevars>>

\* event::read() returned an event that is not a key (mouse, resize, ...)
OtherEvent ==
    /\ pc = "read"
    /\ pc' = "draw"
    /\ UNCHANGED <<appvars, selected_code, result, key, store_call>>
    /\ UNCHANGED <<clipboard, raw_mode, alternate_screen, requested, sidevars>>

\* variant of DeleteTarget that takes the top entry of the list instead of
\* the selected one (C11 tells it apart)
DeleteTarget_Top(sel, visible, snippets) ==
    IF IsSome(sel) /\ IsSome(Get(visible, Unwrap(sel)))
    THEN Some(At(snippets, At(visible, 0)).id)
    ELSE None

\* the id of the snippet a confirm deletes (tui.rs 167-169), if any
DeleteTarget(sel, visible, snippets) ==
    IF IsSome(sel) /\ IsSome(Get(visible, Unwrap(sel)))
    THEN Some(At(snippets, Unwrap(Get(visible, Unwrap(sel)))).id)
    ELSE None

\* all_snippets.retain(|s| s.id != id)
Retain(snippets, id) == SelectSeq(snippets, LAMBDA s : s.id # id)

\* the Ok arm of the confirm (tui.rs 172-180): the fields it assigns
\* variant of Clamp that keeps the selection filter_snippets made (C7 tells
\* it apart)
Clamp_Reset(f, sel) ==
    [visible_snippets |-> f.visible_snippets,
     selected |-> f.selected,
     preview_scroll |-> f.preview_scroll]

\* tui.rs 175-180: the selection after the list was rebuilt
Clamp(f, sel) ==
    [visible_snippets |-> f.visible_snippets,
     selected |-> IF f.visible_snippets = <<>> THEN None
                  ELSE Some(Min(sel, Len(f.visible_snippets) - 1)),
     preview_scroll |-> f.preview_scroll]

\* variant of AfterDelete that does not call filter_snippets, so that the
\* list of before the delete stays (C2 tells it apart)
AfterDelete_Stale(kept, query, sel) ==
    Clamp([visible_snippets |-> visible_snippets, preview_scroll |-> 0], sel)

\* the Ok arm of the confirm (tui.rs 172-180): the list fields it assigns,
\* kept being the snippets that are retained
AfterDelete(kept, query, sel) == Clamp(filter_snippets(kept, query), sel)

\* Mode::ConfirmDelete, KeyCode::Char('y'), delete_snippet answered Ok
ConfirmDeleted ==
    /\ pc = "read" /\ mode = "ConfirmDelete"
    /\ IsSome(DeleteTarget(selected, visible_snippets, all_snippets))
    /\ \E id \in {Unwrap(DeleteTarget(selected, visible_snippets, all_snippets))} :
          /\ store_call' = Some(<<id, "Ok">>)
          /\ all_snippets' = Retain(all_snippets, id)
    /\ \E a \in {AfterDelete(all_snippets', search_query, Unwrap(selected))} :
          /\ visible_snippets' = a.visible_snippets
          /\ selected' = a.selected
          /\ preview_scroll' = a.preview_scroll
    /\ status_msg' = Some(StatusDeleted)
    /\ mode' = "Normal"
    /\ requested' = None
    /\ key' = Some("y")
    /\ pc' = "draw"
    /\ UNCHANGED <<search_query, preview_full, selected_code, result>>
    /\ UNCHANGED <<clipboard, raw_mode, alternate_screen, sidevars>>

\* variant of ConfirmFailed that returns the error from run_tui, as
\* delete_snippet(&id)? would (C8 tells it apart)
ConfirmFailed_Propagates ==
    /\ pc = "read" /\ mode = "ConfirmDelete"
    /\ IsSome(DeleteTarget(selected, visible_snippets, all_snippets))
    /\ \E e \in DeleteErrors :
          store_call' =
              Some(<<Unwrap(DeleteTarget(selected, visible_snippets, all_snippets)), e>>)
    /\ key' = Some("y")
    /\ result' = Some(Err)
    /\ pc' = "failed"
    /\ UNCHANGED <<appvars, selected_code>>
    /\ UNCHANGED <<clipboard, raw_mode, alternate_screen, requested, sidevars>>

\* variant of ConfirmFailed that drops the snippet from the list although the
\* store kept it (C10 tells it apart)
ConfirmFailed_RemovesAnyway ==
    /\ pc = "read" /\ mode = "ConfirmDelete"
    /\ IsSome(DeleteTarget(selected, visible_snippets, all_snippets))
    /\ \E id \in {Unwrap(DeleteTarget(selected, visible_snippets, all_snippets))} :
          /\ \E e \in DeleteErrors :
                /\ store_call' = Some(<<id, e>>)
                /\ status_msg' = Some(StatusFailed(e))
          /\ all_snippets' = Retain(all_snippets, id)
    /\ \E a \in {AfterDelete(all_snippets', search_query, Unwrap(selected))} :
          /\ visible_snippets' = a.visible_snippets
          /\ selected' = a.selected
          /\ preview_scroll' = a.preview_scroll
    /\ mode' = "Normal"
    /\ requested' = None
    /\ key' = Some("y")
    /\ pc' = "draw"
    /\ UNCHANGED <<search_query, preview_full, selected_code, result>>
    /\ UNCHANGED <<clipboard, raw_mode, alternate_screen, sidevars>>

\* Mode::ConfirmDelete, KeyCode::Char('y'), delete_snippet answered Err(e)
ConfirmFailed ==
    /\ pc = "read" /\ mode = "ConfirmDelete"
    /\ IsSome(DeleteTarget(selected, visible_snippets, all_snippets))
    /\ \E e \in DeleteErrors :
          /\ store_call' =
                Some(<<Unwrap(DeleteTarget(selected, visible_snippets, all_snippets)), e>>)
          /\ status_msg' = Some(StatusFailed(e))
    /\ mode' = "Normal"
    /\ requested' = None
    /\ key' = Some("y")
    /\ pc' = "draw"
    /\ UNCHANGED <<all_snippets, visible_snippets, selected, search_query,
                   preview_full, preview_scroll, selected_code, result>>
    /\ UNCHANGED <<clipboard, raw_mode, alternate_screen, sidevars>>

\* variant of ConfirmNothing that sets the mode only when a snippet was
\* selected, so that the confirmation stays open (C6 tells it apart)
ConfirmNothing_StaysInConfirm ==
    /\ pc = "read" /\ mode = "ConfirmDelete"
    /\ ~IsSome(DeleteTarget(selected, visible_snippets, all_snippets))
    /\ key' = Some("y")
    /\ pc' = "draw"
    /\ UNCHANGED <<appvars, selected_code, result, store_call>>
    /\ UNCHANGED <<clipboard, raw_mode, alternate_screen, requested, sidevars>>

\* Mode::ConfirmDelete, KeyCode::Char('y') with nothing to delete
ConfirmNothing ==
    /\ pc = "read" /\ mode = "ConfirmDelete"
    /\ ~IsSome(DeleteTarget(selected, visible_snippets, all_snippets))
    /\ mode' = "Normal"
    /\ requested' = None
    /\ key' = Some("y")
    /\ pc' = "draw"
    /\ UNCHANGED <<all_snippets, visible_snippets, selected, search_query,
                   preview_full, preview_scroll, status_msg, selected_code, result,
                   store_call>>
    /\ UNCHANGED <<clipboard, raw_mode, alternate_screen, sidevars>>

\* variant of CancelDelete that rebuilds the list, which selects the top
\* entry and rewinds the preview (C9 tells it apart)
CancelDelete_Refilters ==
    /\ pc = "read" /\ mode = "ConfirmDelete"
    /\ \E k \in {"n", "Esc"} : key' = Some(k)
    /\ \E f \in {filter_snippets(all_snippets, search_query)} :
          /\ visible_snippets' = f.visible_snippets
          /\ selected' = f.selected
          /\ preview_scroll' = f.preview_scroll
    /\ mode' = "Normal"
    /\ requested' = None
    /\ status_msg' = Some(StatusCanceled)
    /\ pc' = "draw"
    /\ UNCHANGED <<all_snippets, search_query, preview_full, selected_code, result,
                   store_call>>
    /\ UNCHANGED <<clipboard, raw_mode, alternate_screen, sidevars>>

\* Mode::ConfirmDelete, KeyCode::Char('n') | KeyCode::Esc
CancelDelete ==
    /\ pc = "read" /\ mode = "ConfirmDelete"
    /\ \E k \in {"n", "Esc"} : key' = Some(k)
    /\ mode' = "Normal"
    /\ requested' = None
    /\ status_msg' = Some(StatusCanceled)
    /\ pc' = "draw"
    /\ UNCHANGED <<all_snippets, visible_snippets, selected, search_query,
                   preview_full, preview_scroll, selected_code, result, store_call>>
    /\ UNCHANGED <<clipboard, raw_mode, alternate_screen, sidevars>>

\* variant of ConfirmIgnored in which Down still moves the selection while
\* the confirmation is open (C30 tells it apart)
ConfirmIgnored_Navigates ==
    /\ pc = "read" /\ mode = "ConfirmDelete"
    /\ \E k \in (KeyChars \ {"y", "n"}) \cup (PlainKeys \ {"Esc"}) :
          /\ key' = Some(k)
          /\ selected' = IF k = "Down" THEN Some(next(selected, visible_snippets))
                         ELSE selected
    /\ pc' = "draw"
    /\ UNCHANGED <<all_snippets, visible_snippets, search_query, mode,
                   preview_full, preview_scroll, status_msg, selected_code,
                   result, store_call>>
    /\ UNCHANGED <<clipboard, raw_mode, alternate_screen, requested, sidevars>>

\* variant of ConfirmIgnored in which 'q' quits in either mode (C5 tells it
\* apart)
ConfirmIgnored_QuitWorks ==
    /\ pc = "read" /\ mode = "ConfirmDelete"
    /\ \E k \in (KeyChars \ {"y", "n"}) \cup (PlainKeys \ {"Esc"}) :
          /\ key' = Some(k)
          /\ pc' = IF k = "q" THEN "done" ELSE "draw"
    /\ UNCHANGED <<appvars, selected_code, result, store_call>>
    /\ UNCHANGED <<clipboard, raw_mode, alternate_screen, requested, sidevars>>

\* Mode::ConfirmDelete, any other key: _ => {}
ConfirmIgnored ==
    /\ pc = "read" /\ mode = "ConfirmDelete"
    /\ \E k \in (KeyChars \ {"y", "n"}) \cup (PlainKeys \ {"Esc"}) : key' = Some(k)
    /\ pc' = "draw"
    /\ UNCHANGED <<appvars, selected_code, result, store_call>>
    /\ UNCHANGED <<clipboard, raw_mode, alternate_screen, requested, sidevars>>

\* variant of Quit that works only while a snippet is selected (C20 tells
\* it apart)
Quit_NeedsSelection ==
    /\ pc = "read" /\ mode = "Normal"
    /\ IsSome(selected_snippet(selected, visible_snippets, all_snippets))
    /\ key' = Some("q")
    /\ pc' = "done"
    /\ UNCHANGED <<appvars, selected_code, result, store_call>>
    /\ UNCHANGED <<clipboard, raw_mode, alternate_screen, requested, sidevars>>

\* Mode::Normal, KeyCode::Char('q') => break
Quit ==
    /\ pc = "read" /\ mode = "Normal"
    /\ key' = Some("q")
    /\ pc' = "done"
    /\ UNCHANGED <<appvars, selected_code, result, store_call>>
    /\ UNCHANGED <<clipboard, raw_mode, alternate_screen, requested, sidevars>>

\* Mode::Normal, KeyCode::Enter
Enter ==
    /\ pc = "read" /\ mode = "Normal"
    /\ key' = Some("Enter")
    /\ IF IsSome(selected) /\ IsSome(Get(visible_snippets, Unwrap(selected)))
       THEN /\ selected_code' =
                  Some(At(all_snippets, At(visible_snippets, Unwrap(selected))).code)
            /\ pc' = "done"
       ELSE /\ selected_code' = selected_code
            /\ pc' = "draw"
    /\ UNCHANGED <<appvars, store_call, result>>
    /\ UNCHANGED <<clipboard, raw_mode, alternate_screen, requested, sidevars>>

\* variant of Down that leaves the preview where it was scrolled to (C16
\* tells it apart)
Down_KeepsScroll ==
    /\ pc = "read" /\ mode = "Normal"
    /\ key' = Some("Down")
    /\ selected' = Some(next(selected, visible_snippets))
    /\ pc' = "draw"
    /\ UNCHANGED <<all_snippets, visible_snippets, search_query, mode,
                   preview_full, preview_scroll, status_msg, selected_code,
                   result, store_call>>
    /\ UNCHANGED <<clipboard, raw_mode, alternate_screen, requested, sidevars>>

\* Mode::Normal, KeyCode::Down => app.next()
Down ==
    /\ pc = "read" /\ mode = "Normal"
    /\ key' = Some("Down")
    /\ selected' = Some(next(selected, visible_snippets))
    /\ preview_scroll' = 0
    /\ pc' = "draw"
    /\ UNCHANGED <<all_snippets, visible_snippets, search_query, mode,
                   preview_full, status_msg, selected_code, result, store_call>>
    /\ UNCHANGED <<clipboard, raw_mode, alternate_screen, requested, sidevars>>

\* Mode::Normal, KeyCode::Up => app.previous()
Up ==
    /\ pc = "read" /\ mode = "Normal"
    /\ key' = Some("Up")
    /\ selected' = Some(previous(selected, visible_snippets))
    /\ preview_scroll' = 0
    /\ pc' = "draw"
    /\ UNCHANGED <<all_snippets, visible_snippets, search_query, mode,
                   preview_full, status_msg, selected_code, result, store_call>>
    /\ UNCHANGED <<clipboard, raw_mode, alternate_screen, requested, sidevars>>

\* the offset KeyCode::PageDown assigns (tui.rs 213-218)
PageDownScroll(scroll, snip) ==
    LET max_lines == IF IsSome(snip) THEN LinesCount(Unwrap(snip).code) ELSE 0
    IN  Min(SatAddU16(scroll, 5), AsU16(SatSub(max_lines, 1)))

\* Mode::Normal, KeyCode::PageDown
PageDown ==
    /\ pc = "read" /\ mode = "Normal"
    /\ key' = Some("PageDown")
    /\ preview_scroll' =
          PageDownScroll(preview_scroll,
                         selected_snippet(selected, visible_snippets, all_snippets))
    /\ pc' = "draw"
    /\ UNCHANGED <<all_snippets, visible_snippets, selected, search_query, mode,
                   preview_full, status_msg, selected_code, result, store_call>>
    /\ UNCHANGED <<clipboard, raw_mode, alternate_screen, requested, sidevars>>

\* Mode::Normal, KeyCode::PageUp
PageUp ==
    /\ pc = "read" /\ mode = "Normal"
    /\ key' = Some("PageUp")
    /\ preview_scroll' = SatSub(preview_scroll, 5)
    /\ pc' = "draw"
    /\ UNCHANGED <<all_snippets, visible_snippets, selected, search_query, mode,
                   preview_full, status_msg, selected_code, result, store_call>>
    /\ UNCHANGED <<clipboard, raw_mode, alternate_screen, requested, sidevars>>

\* Mode::Normal, KeyCode::Char('p')
TogglePreview ==
    /\ pc = "read" /\ mode = "Normal"
    /\ key' = Some("p")
    /\ preview_full' = ~preview_full
    /\ preview_scroll' = 0
    /\ pc' = "draw"
    /\ UNCHANGED <<all_snippets, visible_snippets, selected, search_query, mode,
                   status_msg, selected_code, result, store_call>>
    /\ UNCHANGED <<clipboard, raw_mode, alternate_screen, requested, sidevars>>

\* Mode::Normal, KeyCode::Char('d')
RequestDelete ==
    /\ pc = "read" /\ mode = "Normal"
    /\ key' = Some("d")
    /\ mode' = "ConfirmDelete"
    /\ requested' = Some(DeleteTarget(selected, visible_snippets, all_snippets))
    /\ status_msg' = Some(StatusPrompt)
    /\ pc' = "draw"
    /\ UNCHANGED <<all_snippets, visible_snippets, selected, search_query,
                   preview_full, preview_scroll, selected_code, result, store_call>>
    /\ UNCHANGED <<clipboard, raw_mode, alternate_screen, sidevars>>

\* search_query.pop()
Pop(q) == IF q = <<>> THEN q ELSE SubSeq(q, 1, Len(q) - 1)

\* Mode::Normal, KeyCode::Backspace
Backspace ==
    /\ pc = "read" /\ mode = "Normal"
    /\ key' = Some("Backspace")
    /\ search_query' = Pop(search_query)
    /\ \E f \in {filter_snippets(all_snippets, search_query')} :
          /\ visible_snippets' = f.visible_snippets
          /\ selected' = f.selected
          /\ preview_scroll' = f.preview_scroll
    /\ pc' = "draw"
    /\ UNCHANGED <<all_snippets, mode, preview_full, status_msg, selected_code, result,
                   store_call>>
    /\ UNCHANGED <<clipboard, raw_mode, alternate_screen, requested, sidevars>>

\* variant of TypedChars in which 'd' has no arm of its own before the
\* KeyCode::Char(c) arm (C29 tells it apart)
TypedChars_WithD == KeyChars \ {"q", "p"}

\* the characters that reach the KeyCode::Char(c) arm: 'q', 'p' and 'd' are
\* matched by the arms before it
TypedChars == KeyChars \ {"q", "p", "d"}

\* variant of TypeChar that pushes the character and leaves the list as it
\* is (C14 tells it apart)
TypeChar_NoRefilter ==
    /\ pc = "read" /\ mode = "Normal"
    /\ Len(search_query) < MaxQuery
    /\ \E c \in TypedChars :
          /\ key' = Some(c)
          /\ search_query' = Append(search_query, c)
    /\ pc' = "draw"
    /\ UNCHANGED <<all_snippets, visible_snippets, selected, preview_scroll,
                   mode, preview_full, status_msg, selected_code, result,
                   store_call>>
    /\ UNCHANGED <<clipboard, raw_mode, alternate_screen, requested, sidevars>>

\* Mode::Normal, KeyCode::Char(c); the query is kept within MaxQuery
TypeChar ==
    /\ pc = "read" /\ mode = "Normal"
    /\ Len(search_query) < MaxQuery
    /\ \E c \in TypedChars :
          /\ key' = Some(c)
          /\ search_query' = Append(search_query, c)
    /\ \E f \in {filter_snippets(all_snippets, search_query')} :
          /\ visible_snippets' = f.visible_snippets
          /\ selected' = f.selected
          /\ preview_scroll' = f.preview_scroll
    /\ pc' = "draw"
    /\ UNCHANGED <<all_snippets, mode, preview_full, status_msg, selected_code, result,
                   store_call>>
    /\ UNCHANGED <<clipboard, raw_mode, alternate_screen, requested, sidevars>>

\* Mode::Normal, any other key: _ => {}
NormalIgnored ==
    /\ pc = "read" /\ mode = "Normal"
    /\ \E k \in {"Esc", "Tab"} : key' = Some(k)
    /\ pc' = "draw"
    /\ UNCHANGED <<appvars, selected_code, result, store_call>>
    /\ UNCHANGED <<clipboard, raw_mode, alternate_screen, requested, sidevars>>

\* tui.rs 245-251: disable_raw_mode()?, execute!(.., LeaveAlternateScreen,
\* DisableMouseCapture)?, terminal.show_cursor()?  all succeeded
Teardown ==
    /\ pc = "done"
    /\ raw_mode' = FALSE
    /\ alternate_screen' = FALSE
    /\ pc' = "restored"
    /\ UNCHANGED <<appvars, selected_code, key, store_call, result>>
    /\ UNCHANGED <<clipboard, requested, sidevars>>

\* one of the three calls of the teardown returned an error: run_tui
\* returns it.  The call that failed may or may not have taken effect; the
\* calls behind it are not made
TeardownError ==
    /\ pc = "done"
    /\ \E failed \in {"disable_raw_mode", "LeaveAlternateScreen", "show_cursor"} :
       \E effect \in BOOLEAN :
          /\ raw_mode' = IF failed = "disable_raw_mode" THEN ~effect ELSE FALSE
          /\ alternate_screen' =
                IF failed = "disable_raw_mode" THEN TRUE
                ELSE IF failed = "LeaveAlternateScreen" THEN ~effect
                ELSE FALSE
    /\ result' = Some(Err)
    /\ pc' = "failed"
    /\ UNCHANGED <<appvars, selected_code, key, store_call>>
    /\ UNCHANGED <<clipboard, requested, sidevars>>

\* variant of CopyAndReturn that hands the code to the clipboard twice (C21
\* tells it apart)
CopyAndReturn_Twice ==
    /\ pc = "restored"
    /\ IsSome(selected_code)
    /\ clipboard' = clipboard \o <<Unwrap(selected_code), Unwrap(selected_code)>>
    /\ result' = Some(Ok(selected_code))
    /\ pc' = "returned"
    /\ UNCHANGED <<appvars, selected_code, key, store_call>>
    /\ UNCHANGED <<raw_mode, alternate_screen, requested, sidevars>>

\* tui.rs 253-258: the clipboard took the code; return Ok(Some(code))
CopyAndReturn ==
    /\ pc = "restored"
    /\ IsSome(selected_code)
    /\ clipboard' = Append(clipboard, Unwrap(selected_code))
    /\ result' = Some(Ok(selected_code))
    /\ pc' = "returned"
    /\ UNCHANGED <<appvars, selected_code, key, store_call>>
    /\ UNCHANGED <<raw_mode, alternate_screen, requested, sidevars>>

\* tui.rs 254-257: Clipboard::new() or set_text() answered an error and
\* expect() panics; run_tui returns nothing.  set_text was called in the
\* second case only
ClipboardPanic ==
    /\ pc = "restored"
    /\ IsSome(selected_code)
    /\ \E failed \in {"Clipboard::new", "set_text"} :
          clipboard' = IF failed = "set_text"
                       THEN Append(clipboard, Unwrap(selected_code))
                       ELSE clipboard
    /\ pc' = "panicked"
    /\ UNCHANGED <<appvars, selected_code, key, store_call, result>>
    /\ UNCHANGED <<raw_mode, alternate_screen, requested, sidevars>>

\* tui.rs 261: Ok(None)
ReturnNone ==
    /\ pc = "restored"
    /\ ~IsSome(selected_code)
    /\ result' = Some(Ok(None))
    /\ pc' = "returned"
    /\ UNCHANGED <<appvars, selected_code, key, store_call>>
    /\ UNCHANGED <<clipboard, raw_mode, alternate_screen, requested, sidevars>>
Next ==
    \/ Draw \/ DrawError \/ ReadError \/ OtherEvent
    \/ ConfirmDeleted \/ ConfirmFailed \/ ConfirmNothing
    \/ CancelDelete \/ ConfirmIgnored
    \/ Quit \/ Enter \/ Down \/ Up \/ PageDown \/ PageUp
    \/ TogglePreview \/ RequestDelete \/ Backspace \/ TypeChar
    \/ NormalIgnored
    \/ Teardown \/ TeardownError \/ CopyAndReturn \/ ClipboardPanic
    \/ ReturnNone

Spec == Init /\ [][Next]_vars

-----------------------------------------------------------------------------
(* load_snippets (snippets.rs 85-106)                                      *)

\* run_tui is not running: the state of the loop plays no part
TuiIdle ==
    /\ all_snippets = <<>> /\ visible_snippets = <<>> /\ selected = None
    /\ search_query = <<>> /\ mode = "Normal"
    /\ preview_full = FALSE /\ preview_scroll = 0 /\ status_msg = None
    /\ selected_code = None /\ key = None /\ store_call = None
    /\ result = None /\ clipboard = <<>>
    /\ raw_mode = FALSE /\ alternate_screen = FALSE
    /\ requested = None
    /\ pc = "idle"

\* what read_dir can yield for the snippets directory: an error instead of
\* an entry; an entry that is not a file or does not end in .json; a .json
\* file that cannot be read as text; a .json file whose text is not the
\* JSON of a Snippet; a .json file holding a snippet
DirEntries ==
    { [kind |-> "entry_error"], [kind |-> "other"],
      [kind |-> "unreadable"], [kind |-> "unparsable"] }
    \cup { [kind |-> "snippet", snippet |-> sn] : sn \in {x \in Pool : x.id \in {"s1", "s4"}} }

Dirs == UNION { [1..n -> DirEntries] : n \in 0..MaxDir }

\* fs::read_dir(..)?.filter_map(std::io::Result::ok)
DirOk(dir) == SelectSeq(dir, LAMBDA e : e.kind # "entry_error")

InitLoad ==
    /\ TuiIdle
    /\ parser = NotRunning
    /\ \E dir \in Dirs :
          loader = [at |-> "start", dir |-> dir, entries |-> <<>>,
                    snippets |-> <<>>, warnings |-> 0, result |-> None]

\* snippets.rs 87-91: the directory exists or was created, and was opened
LoadOpen ==
    /\ loader.at = "start"
    /\ loader' = [loader EXCEPT !.at = "loop", !.entries = DirOk(loader.dir)]
    /\ UNCHANGED <<tuivars, parser>>

\* fs::create_dir_all(..)? or fs::read_dir(..)? returned an error
LoadOpenError ==
    /\ loader.at = "start"
    /\ loader' = [loader EXCEPT !.at = "returned", !.result = Some(Err)]
    /\ UNCHANGED <<tuivars, parser>>

\* snippets.rs 96: the entry is not a file with the extension json
LoadSkip ==
    /\ loader.at = "loop" /\ loader.entries # <<>>
    /\ Head(loader.entries).kind = "other"
    /\ loader' = [loader EXCEPT !.entries = Tail(loader.entries)]
    /\ UNCHANGED <<tuivars, parser>>

\* snippets.rs 97: fs::read_to_string(&path)? returned an error, which
\* load_snippets returns
LoadUnreadable ==
    /\ loader.at = "loop" /\ loader.entries # <<>>
    /\ Head(loader.entries).kind = "unreadable"
    /\ loader' = [loader EXCEPT !.at = "returned", !.result = Some(Err)]
    /\ UNCHANGED <<tuivars, parser>>

\* snippets.rs 100: serde_json::from_str answered Err(e); a warning is
\* printed
LoadUnparsable ==
    /\ loader.at = "loop" /\ loader.entries # <<>>
    /\ Head(loader.entries).kind = "unparsable"
    /\ loader' = [loader EXCEPT !.entries = Tail(loader.entries),
                                !.warnings = loader.warnings + 1]
    /\ UNCHANGED <<tuivars, parser>>

\* snippets.rs 99: Ok(snippet) => snippets.push(snippet)
LoadSnippet ==
    /\ loader.at = "loop" /\ loader.entries # <<>>
    /\ Head(loader.entries).kind = "snippet"
    /\ loader' = [loader EXCEPT !.entries = Tail(loader.entries),
                                !.snippets = Append(loader.snippets,
                                                    Head(loader.entries).snippet)]
    /\ UNCHANGED <<tuivars, parser>>

\* snippets.rs 105: Ok(snippets)
LoadReturn ==
    /\ loader.at = "loop" /\ loader.entries = <<>>
    /\ loader' = [loader EXCEPT !.at = "returned",
                                !.result = Some(Ok(loader.snippets))]
    /\ UNCHANGED <<tuivars, parser>>

NextLoad ==
    \/ LoadOpen \/ LoadOpenError \/ LoadSkip \/ LoadUnreadable
    \/ LoadUnparsable \/ LoadSnippet \/ LoadReturn

SpecLoad == InitLoad /\ [][NextLoad]_vars

-----------------------------------------------------------------------------
(* parse_cmdline (main.rs 313-348)                                         *)

\* the characters of the strings that are parsed: a plain character, a
\* whitespace, the two quotes and the backslash
CmdChars == {"a", " ", "'", "\"", "\\"}

CmdLines == UNION { [1..n -> CmdChars] : n \in 0..MaxCmd }

InitParse ==
    /\ TuiIdle
    /\ loader = NotRunning
    /\ \E s \in CmdLines :
          parser = [at |-> "scan", s |-> s, args |-> <<>>, buf |-> <<>>,
                    in_single |-> FALSE, in_double |-> FALSE, escape |-> FALSE]

\* the loop of parse_cmdline is at character ch
AtChar(ch) == parser.at = "scan" /\ parser.s # <<>> /\ Head(parser.s) = ch

\* main.rs 321-325: the character behind a backslash is pushed as it is
ParseEscaped ==
    /\ parser.at = "scan" /\ parser.s # <<>>
    /\ parser.escape
    /\ parser' = [parser EXCEPT !.s = Tail(parser.s),
                                !.buf = Append(parser.buf, Head(parser.s)),
                                !.escape = FALSE]
    /\ UNCHANGED <<tuivars, loader>>

\* main.rs 327-329: '\\' if !in_single
ParseBackslash ==
    /\ AtChar("\\") /\ ~parser.escape
    /\ ~parser.in_single
    /\ parser' = [parser EXCEPT !.s = Tail(parser.s), !.escape = TRUE]
    /\ UNCHANGED <<tuivars, loader>>

\* main.rs 330-332: '\'' if !in_double
ParseSingleQuote ==
    /\ AtChar("'") /\ ~parser.escape
    /\ ~parser.in_double
    /\ parser' = [parser EXCEPT !.s = Tail(parser.s),
                                !.in_single = ~parser.in_single]
    /\ UNCHANGED <<tuivars, loader>>

\* main.rs 333-335: '"' if !in_single
ParseDoubleQuote ==
    /\ AtChar("\"") /\ ~parser.escape
    /\ ~parser.in_single
    /\ parser' = [parser EXCEPT !.s = Tail(parser.s),
                                !.in_double = ~parser.in_double]
    /\ UNCHANGED <<tuivars, loader>>

\* main.rs 336-340: a whitespace outside quotes ends the argument
ParseWhitespace ==
    /\ AtChar(" ") /\ ~parser.escape
    /\ ~parser.in_single /\ ~parser.in_double
    /\ parser' = [parser EXCEPT !.s = Tail(parser.s),
                                !.args = IF parser.buf # <<>>
                                         THEN Append(parser.args, parser.buf)
                                         ELSE parser.args,
                                !.buf = <<>>]
    /\ UNCHANGED <<tuivars, loader>>

\* main.rs 341: _ => buf.push(ch), for the characters no arm before it took
ParseOther ==
    /\ parser.at = "scan" /\ parser.s # <<>>
    /\ ~parser.escape
    /\ ~(Head(parser.s) = "\\" /\ ~parser.in_single)
    /\ ~(Head(parser.s) = "'" /\ ~parser.in_double)
    /\ ~(Head(parser.s) = "\"" /\ ~parser.in_single)
    /\ ~(Head(parser.s) = " " /\ ~parser.in_single /\ ~parser.in_double)
    /\ parser' = [parser EXCEPT !.s = Tail(parser.s),
                                !.buf = Append(parser.buf, Head(parser.s))]
    /\ UNCHANGED <<tuivars, loader>>

\* main.rs 344-347: the last argument, and the return
ParseReturn ==
    /\ parser.at = "scan" /\ parser.s = <<>>
    /\ parser' = [parser EXCEPT !.at = "returned",
                                !.args = IF parser.buf # <<>>
                                         THEN Append(parser.args, parser.buf)
                                         ELSE parser.args]
    /\ UNCHANGED <<tuivars, loader>>

NextParse ==
    \/ ParseEscaped \/ ParseBackslash \/ ParseSingleQuote \/ ParseDoubleQuote
    \/ ParseWhitespace \/ ParseOther \/ ParseReturn

SpecParse == InitParse /\ [][NextParse]_vars

-----------------------------------------------------------------------------
(* Vocabulary of the properties                                            *)

\* a key k is handled by this step
Handles(k) == pc = "read" /\ key' = Some(k)

\* this step is a confirm whose delete_snippet call answered Ok
ConfirmOkStep ==
    /\ pc = "read" /\ mode = "ConfirmDelete" /\ key' = Some("y")
    /\ IsSome(store_call') /\ Unwrap(store_call')[2] = "Ok"

\* this step is a confirm whose delete_snippet call answered an error
ConfirmErrStep ==
    /\ pc = "read" /\ mode = "ConfirmDelete" /\ key' = Some("y")
    /\ IsSome(store_call') /\ Unwrap(store_call')[2] \in DeleteErrors

\* the fields a snippet is matched on, tags joined by one space
Fields(snippet) ==
    <<snippet.description, Join(snippet.tags, <<" ">>), snippet.code.text>>

\* the defined field scores of a snippet for a query
FieldScores(snippet, query) ==
    {Unwrap(FuzzyMatch(Fields(snippet)[i], query)) :
        i \in {j \in 1..3 : IsSome(FuzzyMatch(Fields(snippet)[j], query))}}

\* seq without its element at 0-based index i
RemoveAt(seq, i) == SubSeq(seq, 1, i) \o SubSeq(seq, i + 2, Len(seq))

\* short keeps elements of long, in their order
IsSubsequence(short, long) ==
    \E f \in [1..Len(short) -> 1..Len(long)] :
        /\ \A k \in 1..Len(short) : short[k] = long[f[k]]
        /\ \A k \in 1..(Len(short) - 1) : f[k] < f[k + 1]

\* run_tui is inside its loop
InLoop == pc \in {"draw", "read"}

\* run_tui is over: it returned or it panicked
Ended == pc \in {"returned", "failed", "panicked"}

\* the keys that are bound to an action of the loop in the current mode
\* (every key but the ones the `_ => {}` arms ignore, Enter and 'q')
ActionKeys ==
    IF mode = "Normal"
    THEN TypedChars \cup {"Backspace", "Down", "Up", "PageDown", "PageUp", "p", "d"}
    ELSE {"y", "n", "Esc"}

\* the preview block of a frame rendered in the current state
preview_text ==
    PreviewText(selected_snippet(selected, visible_snippets, all_snippets),
                preview_full)

RECURSIVE SplitLines(_, _)
\* the pieces of text between its newlines, cur being the piece that is open
SplitLines(text, cur) ==
    IF text = <<>> THEN <<cur>>
    ELSE IF Head(text) = "\n" THEN <<cur>> \o SplitLines(Tail(text), <<>>)
    ELSE SplitLines(Tail(text), Append(cur, Head(text)))

\* the snippets of the well-formed entries of dir, in the order of dir
WellFormed(dir) ==
    [k \in 1..Len(SelectSeq(dir, LAMBDA e : e.kind = "snippet")) |->
        SelectSeq(dir, LAMBDA e : e.kind = "snippet")[k].snippet]

\* the number of .json files of dir that do not hold a snippet
Malformed(dir) ==
    Len(SelectSeq(dir, LAMBDA e : e.kind \in {"unparsable", "unreadable"}))

\* this step of parse_cmdline pushes a quote character onto buf
PushesQuote ==
    /\ parser.at = "scan" /\ parser'.at = "scan"
    /\ Len(parser'.buf) = Len(parser.buf) + 1
    /\ parser'.buf[Len(parser'.buf)] \in {"'", "\""}

\* the number of code lines of snip, an Option<Snippet>: 0 for None
LineCountOf(snip) ==
    IF IsSome(snip) THEN LinesCount(Unwrap(snip).code) ELSE 0

\* the number of code lines of the currently selected snippet
SelectedLineCount ==
    LineCountOf(selected_snippet(selected, visible_snippets, all_snippets))

-----------------------------------------------------------------------------
(* C1: after any sequence of key events, for any corpus, Selection is      *)
(* Some(i) only with i < Len(VisibleOrder), and Selection is None exactly  *)
(* when VisibleOrder is empty.  Stated as the claim states it; run_tui     *)
(* selects Some(0) before the first frame whatever the corpus, and         *)
(* App::next / App::previous select Some(0) on an empty list.              *)
C1_SelectionInRange ==
    /\ IsSome(selected) => Unwrap(selected) < Len(visible_snippets)
    /\ (selected = None) <=> (visible_snippets = <<>>)

(* C2: in every reachable state every element of VisibleOrder is a valid   *)
(* index into Corpus and no index occurs twice.                            *)
C2_VisibleOrderValid ==
    /\ \A k \in 1..Len(visible_snippets) :
          visible_snippets[k] \in 0..(Len(all_snippets) - 1)
    /\ \A k, l \in 1..Len(visible_snippets) :
          k # l => visible_snippets[k] # visible_snippets[l]

\* a delete was confirmed under a query and left entries to show
C2_Witness ==
    /\ IsSome(store_call) /\ Unwrap(store_call)[2] = "Ok"
    /\ search_query # <<>>
    /\ visible_snippets # <<>>

(* C3: with an empty query VisibleOrder is the identity ordering of all    *)
(* Corpus indices; with a non-empty query it holds exactly the indices of  *)
(* the snippets with a defined score in description, tags joined by one    *)
(* space, or code.                                                         *)
C3_VisibleOrderComplete ==
    IF search_query = <<>>
    THEN visible_snippets = Range0(Len(all_snippets))
    ELSE {visible_snippets[k] : k \in 1..Len(visible_snippets)}
           = {i \in 0..(Len(all_snippets) - 1) :
                 FieldScores(At(all_snippets, i), search_query) # {}}

\* a query that keeps some snippets and drops others, one of the kept ones
\* matching in its code only
C3_Witness ==
    /\ search_query # <<>>
    /\ visible_snippets # <<>>
    /\ Len(visible_snippets) < Len(all_snippets)
    /\ \E k \in 1..Len(visible_snippets) :
          LET sn == At(all_snippets, visible_snippets[k])
          IN  /\ ~IsSome(FuzzyMatch(sn.description, search_query))
              /\ ~IsSome(FuzzyMatch(Join(sn.tags, <<" ">>), search_query))

(* C4: for a non-empty query VisibleOrder is sorted by descending overall  *)
(* score, the overall score being the largest defined field score, and     *)
(* snippets of equal overall score keep their Corpus order.                *)
C4_RankedStable ==
    search_query # <<>> =>
        \A k, l \in 1..Len(visible_snippets) :
            k < l =>
                \E a \in {MaxOf(FieldScores(At(all_snippets, visible_snippets[k]),
                                            search_query))} :
                \E b \in {MaxOf(FieldScores(At(all_snippets, visible_snippets[l]),
                                            search_query))} :
                    a > b \/ (a = b /\ visible_snippets[k] < visible_snippets[l])

\* a ranking that moved a later snippet to the front and holds a tie
C4_Witness ==
    /\ search_query # <<>>
    /\ \E k, l \in 1..Len(visible_snippets) :
          k < l /\ visible_snippets[k] > visible_snippets[l]
    /\ \E k, l \in 1..Len(visible_snippets) :
          /\ k < l
          /\ MaxOf(FieldScores(At(all_snippets, visible_snippets[k]), search_query))
               = MaxOf(FieldScores(At(all_snippets, visible_snippets[l]), search_query))

(* C5: while Mode is ConfirmDelete, a key other than 'y', 'n' and Esc      *)
(* leaves query, Corpus, VisibleOrder, Selection, PreviewScroll, the       *)
(* preview flag, StatusMessage and Mode unchanged and does not end the     *)
(* session.                                                                *)
C5_ConfirmIgnoresOtherKeys ==
    [][(/\ pc = "read" /\ mode = "ConfirmDelete"
        /\ IsSome(key') /\ Unwrap(key') \notin {"y", "n", "Esc"})
       => (UNCHANGED <<appvars, selected_code, result>> /\ pc' = "draw")]_vars

\* 'q' was pressed during a confirmation and the loop goes on
C5_Witness ==
    mode = "ConfirmDelete" /\ key = Some("q") /\ pc = "draw"

(* C6: Mode starts as Normal; it becomes ConfirmDelete only by 'd' pressed *)
(* in Normal; it leaves ConfirmDelete only by 'y', 'n' or Esc, each of     *)
(* which always leads to Normal; the query never changes while Mode is     *)
(* ConfirmDelete.                                                          *)
C6_ModeTransitions ==
    /\ mode = "Normal"
    /\ [][/\ (mode # "ConfirmDelete" /\ mode' = "ConfirmDelete")
               => (mode = "Normal" /\ Handles("d"))
          /\ (mode = "ConfirmDelete" /\ mode' # "ConfirmDelete")
               => (Handles("y") \/ Handles("n") \/ Handles("Esc"))
          /\ (mode = "ConfirmDelete"
                /\ (Handles("y") \/ Handles("n") \/ Handles("Esc")))
               => mode' = "Normal"
          /\ mode = "ConfirmDelete" => search_query' = search_query
         ]_vars

\* a confirm that the store refused, and one that had nothing to delete,
\* both back in Normal
C6_Witness ==
    /\ mode = "Normal" /\ key = Some("y")
    /\ search_query # <<>>
    /\ \/ IsSome(store_call) /\ Unwrap(store_call)[2] \in DeleteErrors
       \/ store_call = None

(* C7: a confirmed delete of the snippet at visible position p, the store  *)
(* answering Ok, removes exactly that entry from Corpus, recomputes        *)
(* VisibleOrder for the unchanged query so that it no longer refers to the *)
(* deleted snippet, makes Selection None if VisibleOrder is empty and      *)
(* Some(min(p, last position)) otherwise, and reports success.             *)
C7_DeleteResync ==
    [][ConfirmOkStep =>
          /\ Len(all_snippets') = Len(all_snippets) - 1
          /\ all_snippets' =
                RemoveAt(all_snippets, At(visible_snippets, Unwrap(selected)))
          /\ Unwrap(store_call')[1] =
                At(all_snippets, At(visible_snippets, Unwrap(selected))).id
          /\ search_query' = search_query
          /\ visible_snippets' = FilterVisible(all_snippets', search_query)
          /\ \A k \in 1..Len(visible_snippets') :
                At(all_snippets', visible_snippets'[k]).id # Unwrap(store_call')[1]
          /\ selected' = IF visible_snippets' = <<>> THEN None
                         ELSE Some(Min(Unwrap(selected), Len(visible_snippets') - 1))
          /\ status_msg' = Some(StatusDeleted)
       ]_vars

\* a delete below the top of the list that left the selection off the top
C7_Witness ==
    /\ key = Some("y")
    /\ IsSome(store_call) /\ Unwrap(store_call)[2] = "Ok"
    /\ IsSome(selected) /\ Unwrap(selected) >= 1
    /\ status_msg = Some(StatusDeleted)

(* C8: a confirmed delete that the store answers with an error leaves      *)
(* Corpus, VisibleOrder, Selection, PreviewScroll and query unchanged,     *)
(* puts 'Delete failed: <error>' into StatusMessage, returns to Normal and *)
(* the loop goes on.                                                       *)
C8_DeleteFailureRecoverable ==
    [][ConfirmErrStep =>
          /\ UNCHANGED <<all_snippets, visible_snippets, selected,
                         preview_scroll, search_query>>
          /\ status_msg' = Some("Delete failed: " \o Unwrap(store_call')[2])
          /\ mode' = "Normal"
          /\ pc' = "draw"
       ]_vars

\* a refused delete with the loop about to draw the next frame
C8_Witness ==
    /\ key = Some("y")
    /\ IsSome(store_call) /\ Unwrap(store_call)[2] \in DeleteErrors
    /\ pc = "draw" /\ mode = "Normal"
    /\ all_snippets # <<>>
    /\ status_msg = Some("Delete failed: No such file or directory")

C10_CorpusOnlyShrinksOnConfirm ==
    [][all_snippets' # all_snippets =>
          /\ ConfirmOkStep
          /\ Len(all_snippets') < Len(all_snippets)
          /\ IsSubsequence(all_snippets', all_snippets)
      ]_vars

\* a corpus that lost an entry and still holds two
C10_Witness ==
    /\ IsSome(store_call) /\ Unwrap(store_call)[2] = "Ok"
    /\ Len(all_snippets) >= 2

(* C11: delete_snippet is called only by a 'y' handled in ConfirmDelete,   *)
(* once in that turn of the loop, and with the id of the snippet at        *)
(* Corpus[VisibleOrder[Selection]]; every other event, the delete-request  *)
(* key included, handles its key without a call of the store.              *)
C11_StoreCalledOnlyOnConfirm ==
    [][/\ (IsSome(store_call') /\ store_call' # store_call)
            => /\ mode = "ConfirmDelete" /\ Handles("y")
               /\ store_call = None
               /\ IsSome(selected)
               /\ Unwrap(selected) < Len(visible_snippets)
               /\ Unwrap(store_call')[1] =
                     At(all_snippets, At(visible_snippets, Unwrap(selected))).id
       /\ (pc = "read" /\ ~(mode = "ConfirmDelete" /\ Handles("y")))
            => store_call' = None
       /\ pc # "read" => (store_call' = None \/ store_call' = store_call)
      ]_vars

\* a confirm on an entry below the top of the list, which the store refused
\* so that the list still shows what was asked for
C11_Witness ==
    /\ key = Some("y")
    /\ IsSome(store_call) /\ Unwrap(store_call)[2] \in DeleteErrors
    /\ IsSome(selected) /\ Unwrap(selected) >= 1
    /\ Unwrap(store_call)[1] =
          At(all_snippets, At(visible_snippets, Unwrap(selected))).id

(* C12: with VisibleOrder non-empty, Down moves the selection from the     *)
(* last visible position to position 0 and otherwise one position on, Up   *)
(* moves it from position 0 to the last visible position and otherwise one *)
(* position back, and both set PreviewScroll to 0.                         *)
C12_WrapNavigation ==
    [][(mode = "Normal" /\ visible_snippets # <<>> /\ IsSome(selected))
         => \E p \in {Unwrap(selected)} : \E last \in {Len(visible_snippets) - 1} :
               /\ Handles("Down")
                    => /\ selected' = Some(IF p = last THEN 0 ELSE p + 1)
                       /\ preview_scroll' = 0
               /\ Handles("Up")
                    => /\ selected' = Some(IF p = 0 THEN last ELSE p - 1)
                       /\ preview_scroll' = 0
      ]_vars

\* Up has wrapped from the top of a list of three to its last entry
C12_Witness ==
    /\ key = Some("Up")
    /\ Len(visible_snippets) = 3
    /\ selected = Some(2)
    /\ preview_scroll = 0

(* C13: when VisibleOrder is empty, Up and Down are no-ops: Selection,     *)
(* PreviewScroll and every other state component stay as they are.  Stated *)
(* as the claim states it; App::next and App::previous select Some(0)      *)
(* whatever the list holds.                                                *)
C13_MoveOnEmptyIsNoop ==
    [][(mode = "Normal" /\ visible_snippets = <<>>
          /\ (Handles("Down") \/ Handles("Up")))
         => UNCHANGED <<appvars, selected_code>>
      ]_vars

(* C14: in Normal mode a typed character is appended to the query and a    *)
(* Backspace on a non-empty query removes its last character; either edit  *)
(* recomputes VisibleOrder for the new query, selects Some(0) if           *)
(* VisibleOrder is non-empty and None otherwise, sets PreviewScroll to 0,  *)
(* and leaves Corpus, Mode and the preview flag unchanged.                 *)
C14_QueryEdit ==
    [][/\ \A c \in TypedChars :
             (mode = "Normal" /\ Handles(c))
                => search_query' = Append(search_query, c)
       /\ (mode = "Normal" /\ Handles("Backspace") /\ search_query # <<>>)
             => search_query' = SubSeq(search_query, 1, Len(search_query) - 1)
       /\ (/\ mode = "Normal"
           /\ \/ \E c \in TypedChars : Handles(c)
              \/ Handles("Backspace") /\ search_query # <<>>)
             => /\ visible_snippets' = FilterVisible(all_snippets, search_query')
                /\ selected' = IF visible_snippets' # <<>> THEN Some(0) ELSE None
                /\ preview_scroll' = 0
                /\ UNCHANGED <<all_snippets, mode, preview_full>>
      ]_vars

\* a typed character narrowed a list of several entries, the selection
\* moving to the top of the new list
C14_Witness ==
    /\ key \in {Some(c) : c \in TypedChars}
    /\ Len(search_query) = 2
    /\ visible_snippets # <<>>
    /\ Len(visible_snippets) < Len(all_snippets)
    /\ selected = Some(0) /\ preview_scroll = 0

(* C15: Backspace on an empty query is a no-op: in every reachable Normal  *)
(* state with an empty query, query, VisibleOrder, Selection and           *)
(* PreviewScroll are unchanged by it.  Stated as the claim states it; the  *)
(* handler calls filter_snippets whether or not pop() removed anything.    *)
C15_BackspaceOnEmptyIsNoop ==
    [][(mode = "Normal" /\ Handles("Backspace") /\ search_query = <<>>)
         => UNCHANGED <<search_query, visible_snippets, selected, preview_scroll>>
      ]_vars

(* C16: in every reachable state PreviewScroll is at most                  *)
(* max(0, line_count - 1), line_count being the number of code lines of    *)
(* the selected snippet and 0 when nothing is selected.                    *)
C16_ScrollWithinCode ==
    preview_scroll <= Max(0, SelectedLineCount - 1)

\* the preview of a snippet of several lines scrolled down to its last line
C16_Witness ==
    /\ key = Some("PageDown")
    /\ preview_scroll > 5
    /\ preview_scroll = SelectedLineCount - 1

(* C17: in Normal mode with a snippet selected, PageDown sets              *)
(* PreviewScroll to min(old + 5, line_count - 1) and PageUp sets it to     *)
(* max(old - 5, 0), for every line_count of the selected snippet's code;   *)
(* with nothing selected both keys leave PreviewScroll unchanged.  Stated  *)
(* as the claim states it; the code converts line_count - 1 by `as u16`,   *)
(* which keeps the low 16 bits only.                                       *)
C17_PageScroll ==
    [][(mode = "Normal" /\ (Handles("PageDown") \/ Handles("PageUp")))
         => \E lc \in {SelectedLineCount} :
               IF IsSome(selected_snippet(selected, visible_snippets, all_snippets))
               THEN /\ Handles("PageDown")
                         => preview_scroll' = Min(preview_scroll + 5, lc - 1)
                    /\ Handles("PageUp")
                         => preview_scroll' = Max(preview_scroll - 5, 0)
               ELSE preview_scroll' = preview_scroll
      ]_vars

(* C18: 'p' in Normal mode only flips the preview flag: PreviewScroll      *)
(* keeps its value, and query, VisibleOrder, Selection, Corpus and Mode    *)
(* are unchanged.  Stated as the claim states it; the handler also assigns *)
(* preview_scroll = 0.                                                     *)
C18_ToggleOnlyFlipsFlag ==
    [][(mode = "Normal" /\ Handles("p"))
         => /\ preview_full' = ~preview_full
            /\ UNCHANGED <<preview_scroll, search_query, visible_snippets,
                           selected, all_snippets, mode>>
      ]_vars

(* C19: in Normal mode Enter on a selected snippet ends the loop and the   *)
(* session result is Selected(code), code being the code of                *)
(* Corpus[VisibleOrder[Selection]] at that moment; 'q' ends the loop with  *)
(* no selection; the session returns Selected only if the last key was     *)
(* Enter; no other key ends the loop.  Stated as the claim states it, for  *)
(* the runs whose terminal teardown succeeds; the clipboard calls behind   *)
(* the loop are unwrapped with expect(), so a run that selected can end    *)
(* without any result.                                                     *)
C19_SelectYieldsCode ==
    /\ [][/\ (mode = "Normal" /\ Handles("Enter")
                /\ IsSome(selected_snippet(selected, visible_snippets, all_snippets)))
              => /\ pc' = "done"
                 /\ selected_code' =
                       Some(At(all_snippets,
                               At(visible_snippets, Unwrap(selected))).code)
          /\ (mode = "Normal" /\ Handles("q"))
              => (pc' = "done" /\ selected_code' = None)
          /\ (pc = "read" /\ IsSome(key') /\ ~InLoop')
              => (mode = "Normal" /\ (Handles("Enter") \/ Handles("q")))
          ]_vars
    /\ [](/\ (pc \in {"returned", "panicked"} /\ key = Some("Enter"))
              => (IsSome(selected_code) /\ result = Some(Ok(selected_code)))
          /\ (pc \in {"returned", "panicked"} /\ key = Some("q"))
              => result = Some(Ok(None))
          /\ (IsSome(result) /\ result # Some(Err) /\ result # Some(Ok(None)))
              => key = Some("Enter"))

(* C20: 'q' can be pressed in every reachable Normal state, whatever the   *)
(* query, the selection and the status, and ends the loop with no          *)
(* selection; a cancel key can be pressed in every reachable ConfirmDelete *)
(* state and leads to Normal; so from every state of the loop the session  *)
(* is ended by at most two keys.                                           *)
C20_QuitAlwaysPossible ==
    /\ [](/\ mode \in {"Normal", "ConfirmDelete"}
          /\ (pc = "read" /\ mode = "Normal") => ENABLED Quit
          /\ (pc = "read" /\ mode = "ConfirmDelete") => ENABLED CancelDelete
          /\ (pc = "returned" /\ key = Some("q")) => result = Some(Ok(None)))
    /\ [][/\ (mode = "Normal" /\ Handles("q"))
              => (~InLoop' /\ pc' = "done" /\ selected_code' = None
                  /\ UNCHANGED appvars)
          /\ (mode = "ConfirmDelete" /\ (Handles("n") \/ Handles("Esc")))
              => (mode' = "Normal" /\ pc' = "draw")
          ]_vars

\* the session was quit from a state with a query that matches nothing and
\* a status message on display, and returned without a selection
C20_Witness ==
    /\ key = Some("q")
    /\ result = Some(Ok(None))
    /\ search_query # <<>> /\ visible_snippets = <<>>
    /\ IsSome(status_msg)

(* C21: Clipboard.set_text is called exactly once when the session ended   *)
(* with a selection and never when it ended by quit; it is called only     *)
(* after the loop has ended and the terminal was torn down, and with       *)
(* exactly the code of the selected snippet.                               *)
C21_ClipboardOnceAfterSelect ==
    /\ Len(clipboard) <= 1
    /\ clipboard # <<>>
         => /\ pc \in {"returned", "panicked"}
            /\ ~raw_mode /\ ~alternate_screen
            /\ key = Some("Enter")
            /\ IsSome(selected) /\ Unwrap(selected) < Len(visible_snippets)
            /\ clipboard[1] =
                  At(all_snippets, At(visible_snippets, Unwrap(selected))).code
    /\ (IsSome(result) /\ result # Some(Err) /\ result # Some(Ok(None)))
         => (Len(clipboard) = 1 /\ result = Some(Ok(Some(clipboard[1]))))
    /\ (Ended /\ key = Some("q")) => clipboard = <<>>

\* a session that returned the code of an entry below the top of the list,
\* the clipboard holding that code
C21_Witness ==
    /\ pc = "returned" /\ key = Some("Enter")
    /\ IsSome(selected) /\ Unwrap(selected) >= 1
    /\ Len(clipboard) = 1
    /\ result = Some(Ok(Some(clipboard[1])))

(* C22: a clipboard failure after a selection is recoverable: run_tui      *)
(* reports it in the result it returns and the process is not aborted.     *)
(* Stated as the claim states it; Clipboard::new() and set_text() are      *)
(* unwrapped with expect().                                                *)
C22_ClipboardFailureReported ==
    [][pc = "restored" => (IsSome(result') /\ pc' # "panicked")]_vars

(* C23: every action applied in the loop (typing, Backspace, navigation,   *)
(* scroll, toggle, delete-request, confirm, cancel) overwrites             *)
(* StatusMessage, so a message set by one action is no longer there after  *)
(* the next action.  Stated as the claim states it; status_msg is assigned *)
(* by the delete-request, confirm and cancel arms only.                    *)
C23_StatusOverwritten ==
    [][(pc = "read" /\ IsSome(key') /\ Unwrap(key') \in ActionKeys
          /\ IsSome(status_msg))
         => status_msg' # status_msg
      ]_vars

(* C24: ui does not mutate state: query, Corpus, VisibleOrder, Selection,  *)
(* Mode, PreviewScroll, the preview flag and StatusMessage are the same    *)
(* after a render as before it, also with an empty VisibleOrder.  Stated   *)
(* as the claim states it; ui hands &mut app.list_state to the list        *)
(* widget, which corrects a selection the list does not have.              *)
C24_RenderLeavesState ==
    [][(pc = "draw" /\ pc' = "read") => UNCHANGED appvars]_vars

(* C25: the preview block is 'No snippet selected.' when no snippet is     *)
(* selected, in particular when VisibleOrder is empty; the whole code when *)
(* the preview is expanded; otherwise the first 10 lines of the code,      *)
(* followed by an ellipsis line exactly when the code has more than 10     *)
(* lines, and the unmodified lines when it has 10 or fewer.                *)
C25_PreviewBlock ==
    /\ visible_snippets = <<>> => preview_text = "No snippet selected."
    /\ \E snip \in {selected_snippet(selected, visible_snippets, all_snippets)} :
          IF ~IsSome(snip) THEN preview_text = "No snippet selected."
          ELSE IF preview_full THEN preview_text = Unwrap(snip).code
          ELSE /\ preview_text.pad = 0
               /\ SplitLines(preview_text.text, <<>>) =
                     IF LinesCount(Unwrap(snip).code) > 10
                     THEN Append(CodeLines(Unwrap(snip).code, 10), <<EllipsisChar>>)
                     ELSE CodeLines(Unwrap(snip).code, LinesCount(Unwrap(snip).code))

\* a frame whose compact preview shows ten of twelve lines and the ellipsis
C25_Witness ==
    /\ pc = "read" /\ ~preview_full
    /\ SelectedLineCount = 12
    /\ Len(SplitLines(preview_text.text, <<>>)) = 11

(* C26: load_snippets skips every malformed entry with a warning and still *)
(* returns all well-formed snippets: a bad .json file, whether it is not   *)
(* parsable as JSON or not readable as text, never makes the load fail.    *)
(* Stated as the claim states it; the text of the file is read with        *)
(* fs::read_to_string(&path)?, which returns the error from load_snippets. *)
C26_LoadSkipsMalformed ==
    [][(loader.at = "loop" /\ loader'.at = "returned")
         => /\ loader'.result = Some(Ok(WellFormed(loader.dir)))
            /\ loader'.warnings = Malformed(loader.dir)
      ]_vars

(* C27: parse_cmdline never puts a quote character (' or ") into an        *)
(* argument unless that character was backslash-escaped inside double      *)
(* quotes; with unclosed quotes the remaining text goes into the current   *)
(* token; a trailing lone backslash is ignored.  Stated as the claim       *)
(* states it; the `_` arm pushes the quote of the other kind inside        *)
(* quotes, and a backslash escapes outside quotes as well.                 *)
C27_QuotesOnlyWhenEscaped ==
    [][/\ PushesQuote => (parser.escape /\ parser.in_double)
       /\ (parser.at = "scan" /\ parser'.at = "scan"
             /\ (parser.in_single \/ parser.in_double))
            => parser'.args = parser.args
       /\ (parser.at = "scan" /\ parser'.at = "returned")
            => parser'.args = IF parser.buf # <<>>
                              THEN Append(parser.args, parser.buf)
                              ELSE parser.args
      ]_vars

(* C28: whenever run_tui returns after raw mode and the alternate screen   *)
(* were entered - by quit, by select, or because drawing a frame or        *)
(* reading an event failed in the loop - raw mode has been disabled and    *)
(* the alternate screen left.  Stated as the claim states it; the `?` on   *)
(* terminal.draw and event::read returns from inside the loop, past the    *)
(* teardown.                                                               *)
C28_TerminalRestored ==
    pc \in {"returned", "failed"} => (~raw_mode /\ ~alternate_screen)

(* C29: in Normal mode every character key other than 'q', 'p' and 'd'     *)
(* appends exactly that character to the query, and 'q', 'p' and 'd' leave *)
(* the query as it is; so the query never holds 'q', 'p' or 'd', while 'y' *)
(* and 'n' can be typed.                                                   *)
C29_DedicatedKeysNotTyped ==
    /\ [](\A i \in 1..Len(search_query) : search_query[i] \notin {"q", "p", "d"})
    /\ [][\A c \in KeyChars :
             (mode = "Normal" /\ Handles(c))
                => search_query' = IF c \in {"q", "p", "d"} THEN search_query
                                   ELSE Append(search_query, c)
          ]_vars

\* 'y' and 'n' were typed into the query, 'n' being the key handled last
C29_Witness ==
    /\ search_query = <<"y", "n">>
    /\ key = Some("n") /\ mode = "Normal"

C31_PromptOnlyInConfirm ==
    (status_msg = Some(StatusPrompt)) <=> (mode = "ConfirmDelete")

====
